---- MODULE Spec2Model ----
(***************************************************************************)
(* State-machine model of the voice session hook usePersonaplexSession    *)
(* (src/unnamed/part_003): microphone capture, the realtime transcription *)
(* socket, the two commit strategies, the dialogue / synthesis pipeline,  *)
(* playback and the two timers.                                            *)
(*                                                                         *)
(* The JavaScript event loop runs one callback at a time, so every        *)
(* handler (up to its next await) is one atomic action.  Handlers are     *)
(* written as operators from a state record to a state record so that the *)
(* calls a handler makes (stopRecording, processUserInput, speak, ...)    *)
(* compose exactly as in the code.                                         *)
(***************************************************************************)
EXTENDS Integers, Sequences, FiniteSets, TLC

\* ------------------------------------------------------------------ bounds
\* Spec explores runs of up to MaxConnects sessions; SpecRetry explores one session with
\* one more capture attempt, which the repeated channel-error retry needs.
MaxConnects == 2      \* connect() calls in one run
MaxCaps == 2          \* capture attempts (start() invocations) in one run
MaxUtts == 2          \* assistant utterances (speakWithVoiceApi invocations) in one run
MaxPipes == 2         \* turn pipelines (dialogue requests) in one run
MaxTranscript == 4    \* entries in the session transcript
MaxBuf == 2           \* fragments in the manual commit buffer
MaxOrphans == 1       \* timers still pending whose handle was overwritten
MaxFaults == 1        \* failures reported by the environment in one run
RetryConnects == 1    \* SpecRetry: connect() calls in one run
RetryCaps == 3        \* SpecRetry: capture attempts in one run
RetryFaults == 2      \* SpecRetry: failures reported by the environment in one run
RetryUtts == 2        \* SpecRetry: assistant utterances in one run
RetryPipes == 1       \* SpecRetry: turn pipelines in one run
PageConnects == 2     \* SpecPage: connect() calls in one run
PageCaps == 2         \* SpecPage: capture attempts in one run
PageUtts == 2         \* SpecPage: assistant utterances in one run
PagePipes == 1        \* SpecPage: turn pipelines in one run
PageFaults == 1       \* SpecPage: failures reported by the environment in one run
LiveConnects == 1     \* SpecLive: connect() calls in one run
LiveCaps == 2         \* SpecLive: capture attempts in one run
LiveUtts == 2         \* SpecLive: assistant utterances in one run
LivePipes == 1        \* SpecLive: turn pipelines in one run
LiveFaults == 1       \* SpecLive: failures reported by the environment in one run
RejoinConnects == 2   \* SpecRejoin: connect() calls in one run
PreviewLen == 2       \* maxLen of transcriptToPreview (100 in the code), in characters

Larger(a, b) == IF a > b THEN a ELSE b

\* ------------------------------------------------------------------ texts
\* A text is a sequence of characters; " " is the only whitespace used.
Fragments == { <<" ", "a">>, <<" ">> }            \* msg.text of committed_transcript
Replies == { <<"q">>, <<" ">> }                   \* data.question (non-empty strings)
Greeting == <<"h">>

\* A budget also names the fragments the channel may deliver (frags) and says whether the
\* state of the page component (its transcript and the journal) is tracked (page); the hook
\* never reads the page's state, so leaving it out changes nothing the hook does.
\* modes says whether the manualMode values held in closures (of capture attempts,
\* utterances and timers) are tracked; no handler reads them back, they only fix the
\* commit_strategy parameter a socket is opened with.
\* rejects says whether an Audio element that fails to load, besides firing its error
\* event, also rejects the promise of play(), as browsers do for a source they cannot
\* load; without it a failing element reports one of the two.
\* sessions says whether a pipeline records the number of the session (the count of
\* connect() calls) it was started in; no handler reads it.
Budget == [connects |-> MaxConnects, caps |-> MaxCaps, utts |-> MaxUtts,
           pipes |-> MaxPipes, faults |-> MaxFaults, frags |-> Fragments, page |-> FALSE,
           modes |-> FALSE, rejects |-> FALSE, sessions |-> FALSE]
RetryBudget == [connects |-> RetryConnects, caps |-> RetryCaps, utts |-> RetryUtts,
                pipes |-> RetryPipes, faults |-> RetryFaults, frags |-> Fragments,
                page |-> FALSE, modes |-> FALSE, rejects |-> FALSE, sessions |-> FALSE]
PageBudget == [connects |-> PageConnects, caps |-> PageCaps, utts |-> PageUtts,
               pipes |-> PagePipes, faults |-> PageFaults, frags |-> Fragments,
               page |-> TRUE, modes |-> FALSE, rejects |-> FALSE, sessions |-> FALSE]
LiveBudget == [connects |-> LiveConnects, caps |-> LiveCaps, utts |-> LiveUtts,
               pipes |-> LivePipes, faults |-> LiveFaults, frags |-> Fragments,
               page |-> FALSE, modes |-> FALSE, rejects |-> FALSE, sessions |-> FALSE]
ModeBudget == [LiveBudget EXCEPT !.modes = TRUE]
PersistBudget == [LiveBudget EXCEPT !.page = TRUE]
RejectBudget == [LiveBudget EXCEPT !.rejects = TRUE]
SessionBudget == [Budget EXCEPT !.sessions = TRUE]
RejoinBudget == [LiveBudget EXCEPT !.connects = RejoinConnects, !.frags = { <<" ", "a">> }]

RECURSIVE TrimLeft(_)
TrimLeft(t) == IF t = <<>> THEN <<>>
               ELSE IF Head(t) = " " THEN TrimLeft(Tail(t)) ELSE t

RECURSIVE TrimRight(_)
TrimRight(t) == IF t = <<>> THEN <<>>
                ELSE IF t[Len(t)] = " " THEN TrimRight(SubSeq(t, 1, Len(t) - 1)) ELSE t

Trim(t) == TrimRight(TrimLeft(t))

RECURSIVE Join(_)
Join(buf) == IF buf = <<>> THEN <<>>
             ELSE IF Len(buf) = 1 THEN buf[1]
             ELSE buf[1] \o <<" ">> \o Join(Tail(buf))

\* ------------------------------------------------------------------ state
VARIABLES
  status,                    \* useState status
  errorMessage,              \* useState errorMessage ("none" = null)
  isUserSpeaking,            \* useState isUserSpeaking
  isAiSpeaking,              \* isAiSpeakingRef (set together with the state)
  caps,                      \* capture attempts: start() closures and their stream / socket / graph
  streamRef,                 \* streamRef and audioContextRef (always set and cleared together)
  wsRef,                     \* wsRef
  graphRef,                  \* sourceRef and processorRef
  playbackCtx,               \* playbackContextRef.current # null
  utts,                      \* speakWithVoiceApi invocations
  currentAudioRef,           \* currentAudioRef
  currentPlaybackSourceRef,  \* currentPlaybackSourceRef
  pipes,                     \* processUserInput invocations suspended at the dialogue call
  transcript,                \* transcriptRef
  isProcessing,              \* isProcessingRef
  isListening,               \* isListeningRef
  lrArmed,                   \* startRecordingTimeoutRef.current # null
  lrOrphans,                 \* listen-restart timers pending but no longer referenced
  mcArmed,                   \* pendingManualCommitTimeoutRef.current # null
  mcOrphans,                 \* manual-commit timers pending but no longer referenced
  manualBuffer,              \* manualBufferRef
  pendingManualCommit,       \* pendingManualCommitRef
  manualMode,                \* manualModeRef
  pageTranscript,            \* useState transcript of the Personaplex page
  entries,                   \* number of journal entries saved (useJournalHistory entries)
  newestEntry,               \* the entry saved last (entries[0]): fullTranscript and preview
  lrModes,                   \* manualMode in the closures of the pending listen-restart timers
  apiReq,                    \* backend: the request served last, with the upstream's answer
  apiResp,                   \* backend: the response to it
  wavIn,                     \* audio conversion: the decoded AudioBuffer converted last
  wavOut,                    \* audio conversion: the bytes audioBufferToWav returned for it
  pcmIn,                     \* chunk encoding: the samples and rates of the chunk encoded last
  pcmOut,                    \* chunk encoding: the base64 digits float32ToPcmBase64 returned
  connects,                  \* history: number of connect() calls so far
  faults,                    \* history: number of failures the environment reported so far
  lastOp,                    \* history: the handler that ran last and the flags it started from
  trace                      \* history: the effects of the last handler, in program order

vars == << status, errorMessage, isUserSpeaking, isAiSpeaking, caps, streamRef, wsRef,
           graphRef, playbackCtx, utts, currentAudioRef, currentPlaybackSourceRef, pipes,
           transcript, isProcessing, isListening, lrArmed, lrOrphans, mcArmed, mcOrphans,
           manualBuffer, pendingManualCommit, manualMode, pageTranscript, entries,
           newestEntry, lrModes, apiReq, apiResp, wavIn, wavOut, pcmIn, pcmOut, connects,
           faults, lastOp, trace >>

CapIds == 1 .. Larger(Larger(MaxCaps, RetryCaps), Larger(PageCaps, LiveCaps))
UttIds == 1 .. Larger(Larger(MaxUtts, RetryUtts), Larger(PageUtts, LiveUtts))
PipeIds == 1 .. Larger(Larger(MaxPipes, RetryPipes), Larger(PagePipes, LivePipes))

\* ------------------------------------------------------------------ backend
\* The six serverless handlers. A request is the endpoint, whether the credential the
\* endpoint needs is set in the server's environment, the kind of body posted, and the
\* answer the upstream service gives if it is asked.
Endpoints == {"interviewer", "voice", "transcribe", "voices", "scribe-token", "reformat"}
PostEndpoints == {"interviewer", "voice", "transcribe", "reformat"}

\* Bodies of a POST: text that is not JSON; the JSON value null; an object without the
\* required field; an object whose required field has the wrong type; a valid body.
Bodies == {"badJson", "null", "missing", "wrongType", "valid"}

\* Upstream answers: the status code and the shape of the payload. The upstream's error
\* object is under the key "error" (OpenRouter) or "detail" (ElevenLabs).
\*   good       JSON carrying what the endpoint asks for (content, token, text, voices)
\*   nested     JSON whose error object carries a message
\*   objNoMsg   JSON whose error object carries no message
\*   errString  JSON whose error key holds a string
\*   topMessage JSON with a top-level "message" string and no error key
\*   jsonOther  JSON object with none of these keys
\*   text       text that is not JSON
\*   empty      empty body
UpstreamCodes == {200, 401, 503}
Payloads == {"good", "nested", "objNoMsg", "errString", "topMessage", "jsonOther", "text",
             "empty"}
\* fetch rejects (no connection)
NetworkError == [code |-> 0, payload |-> "none"]
Upstreams == [code : UpstreamCodes, payload : Payloads] \cup {NetworkError}

NoRequest == [ep |-> "none", key |-> FALSE, body |-> "none", up |-> NetworkError]
\* a GET carries no body
Requests ==
  { r \in [ep : Endpoints, key : BOOLEAN, body : Bodies \cup {"none"}, up : Upstreams] :
      (r.body = "none") <=> (r.ep \notin PostEndpoints) }
NoResponse == [status |-> 0, error |-> "none", fetched |-> FALSE]

\* A response: the status, the value of the body's "error" member ("none": the body has
\* no such member and carries the data), and whether the upstream was asked.
\*   config, validation, noContent, generic   fixed non-empty strings of the handler
\*   upstreamMessage   the message string found in the upstream payload
\*   rawText           the leading characters of the upstream's raw text (non-empty)
\*   exception         the message of the exception the handler caught
\*   objectString      "[object Object]"
\*   object            a JSON object, not a string
\*   false             the boolean false, not a string
jsonResponse(body, code, fetched) ==
  [status |-> code, error |-> body, fetched |-> fetched]

IsOk(up) == up.code \in 200 .. 299
IsJson(up) == up.payload \notin {"text", "empty"}

interviewerWithKey(req) ==
  CASE req.body = "badJson" -> jsonResponse("validation", 400, FALSE)
    [] req.body = "null" -> jsonResponse("exception", 500, FALSE)
    [] req.body \in {"missing", "wrongType"} -> jsonResponse("validation", 400, FALSE)
    [] OTHER ->
         IF req.up = NetworkError THEN jsonResponse("exception", 500, TRUE)
         ELSE IF ~IsOk(req.up)
         THEN jsonResponse(CASE req.up.payload \in {"nested", "errString"} -> "upstreamMessage"
                             [] req.up.payload = "objNoMsg" -> "objectString"
                             [] req.up.payload = "empty" -> "generic"
                             [] OTHER -> "rawText",
                           500, TRUE)
         ELSE IF req.up.payload = "good" THEN jsonResponse("none", 200, TRUE)
         ELSE jsonResponse("noContent", 500, TRUE)

interviewerPOST(req) ==
  IF ~req.key THEN jsonResponse("config", 500, FALSE) ELSE interviewerWithKey(req)

reformatWithKey(req) ==
  CASE req.body \in {"badJson", "null"} -> jsonResponse("exception", 500, FALSE)
    [] req.body \in {"missing", "wrongType"} -> jsonResponse("validation", 400, FALSE)
    [] OTHER ->
         IF req.up = NetworkError \/ ~IsJson(req.up) THEN jsonResponse("exception", 500, TRUE)
         ELSE IF ~IsOk(req.up)
         THEN jsonResponse(CASE req.up.payload \in {"nested", "errString"} -> "upstreamMessage"
                             [] req.up.payload = "objNoMsg" -> "object"
                             [] OTHER -> "generic",
                           req.up.code, TRUE)
         ELSE IF req.up.payload = "good" THEN jsonResponse("none", 200, TRUE)
         ELSE jsonResponse("noContent", 500, TRUE)

reformatPOST(req) ==
  IF ~req.key THEN jsonResponse("config", 500, FALSE) ELSE reformatWithKey(req)

voiceWithKey(req) ==
  IF req.body # "valid" THEN jsonResponse("validation", 400, FALSE)
  ELSE IF req.up = NetworkError THEN jsonResponse("exception", 500, TRUE)
  ELSE IF ~IsOk(req.up)
  THEN jsonResponse(CASE req.up.payload = "empty" -> "generic"
                      [] req.up.payload \in {"nested", "topMessage"} -> "upstreamMessage"
                      [] OTHER -> "rawText",
                    500, TRUE)
  ELSE jsonResponse("none", 200, TRUE)

voicePOST(req) ==
  IF ~req.key THEN jsonResponse("config", 500, FALSE) ELSE voiceWithKey(req)

\* (typeof errDetail === "object" && errDetail?.message) is false, and so not nullish,
\* when the payload has no error object.
transcribeWithKey(req) ==
  IF req.body # "valid" THEN jsonResponse("validation", 400, FALSE)
  ELSE IF req.up = NetworkError THEN jsonResponse("exception", 500, TRUE)
  ELSE IF ~IsOk(req.up)
  THEN jsonResponse(CASE req.up.payload = "nested" -> "upstreamMessage"
                      [] req.up.payload = "objNoMsg" -> "rawText"
                      [] OTHER -> "false",
                    500, TRUE)
  ELSE jsonResponse("none", 200, TRUE)

transcribePOST(req) ==
  IF ~req.key THEN jsonResponse("config", 500, FALSE) ELSE transcribeWithKey(req)

scribeTokenWithKey(req) ==
  IF req.up = NetworkError THEN jsonResponse("exception", 500, TRUE)
  ELSE IF ~IsOk(req.up)
  THEN jsonResponse(CASE req.up.payload = "nested" -> "upstreamMessage"
                      [] req.up.payload = "objNoMsg" -> "rawText"
                      [] OTHER -> "false",
                    500, TRUE)
  ELSE IF req.up.payload = "good" THEN jsonResponse("none", 200, TRUE)
  ELSE jsonResponse("noContent", 500, TRUE)

scribeTokenGET(req) ==
  IF ~req.key THEN jsonResponse("config", 500, FALSE) ELSE scribeTokenWithKey(req)

\* a variant that reports the missing credential as the other handlers do
voicesGETStrict(req) ==
  IF ~req.key THEN jsonResponse("config", 500, FALSE) ELSE jsonResponse("none", 200, TRUE)

\* every path answers 200 with a voice list: the upstream's, or FALLBACK_VOICES
voicesGET(req) ==
  IF ~req.key THEN jsonResponse("none", 200, FALSE) ELSE jsonResponse("none", 200, TRUE)

\* scripts/api-server.ts routes by path and method
handle(req) ==
  CASE req.ep = "interviewer" -> interviewerPOST(req)
    [] req.ep = "voice" -> voicePOST(req)
    [] req.ep = "voices" -> voicesGET(req)
    [] req.ep = "scribe-token" -> scribeTokenGET(req)
    [] req.ep = "transcribe" -> transcribePOST(req)
    [] req.ep = "reformat" -> reformatPOST(req)

sessionVars == << status, errorMessage, isUserSpeaking, isAiSpeaking, caps, streamRef, wsRef,
                  graphRef, playbackCtx, utts, currentAudioRef, currentPlaybackSourceRef,
                  pipes, transcript, isProcessing, isListening, lrArmed, lrOrphans, mcArmed,
                  mcOrphans, manualBuffer, pendingManualCommit, manualMode, pageTranscript,
                  entries, newestEntry, lrModes, connects, faults, lastOp, trace >>

\* the handler of the requested endpoint answers the request
Serve(ep) ==
  /\ apiReq.ep = ep
  /\ apiResp = NoResponse
  /\ apiResp' = handle(apiReq)
  /\ UNCHANGED << sessionVars, apiReq, wavIn, wavOut, pcmIn, pcmOut >>

ServeInterviewer == Serve("interviewer")
ServeVoice == Serve("voice")
ServeTranscribe == Serve("transcribe")
ServeReformat == Serve("reformat")
ServeVoices == Serve("voices")
ServeScribeToken == Serve("scribe-token")

\* ------------------------------------------------------------------ audio conversion
MaxFrames == 2
MaxChannels == 3
SampleRates == {16000, 44100}
\* sample values in halves: -1 and 1.5
SampleValues == {-2, 3}

NoAudio == [sampleRate |-> 0, numberOfChannels |-> 0, length |-> 0, channels |-> <<>>]

AudioBuffers ==
  UNION { { [sampleRate |-> r, numberOfChannels |-> c, length |-> n, channels |-> ch] :
              r \in SampleRates, ch \in [1 .. c -> [1 .. n -> SampleValues]] } :
          c \in 1 .. MaxChannels, n \in 0 .. MaxFrames }

\* DataView.setUint8 of each character code
writeString(str) ==
  CASE str = "RIFF" -> << 82, 73, 70, 70 >>
    [] str = "WAVE" -> << 87, 65, 86, 69 >>
    [] str = "fmt " -> << 102, 109, 116, 32 >>
    [] str = "data" -> << 100, 97, 116, 97 >>

\* DataView.setUint16 / setUint32 / setInt16 with littleEndian = true: the n low bytes of
\* the value in two's complement, least significant byte first
setLittleEndian(v, n) ==
  [k \in 1 .. n |-> (v \div (256 ^ (k - 1))) % 256]

\* one frame: mix of the first two channels (in quarters), clamped to [-1, 1], scaled and
\* truncated towards zero
pcmOf(ab, i) ==
  LET mixed == IF ab.numberOfChannels > 1 THEN ab.channels[1][i] + ab.channels[2][i]
               ELSE 2 * ab.channels[1][i]
      s == Larger(-4, IF mixed < 4 THEN mixed ELSE 4)
  IN IF s < 0 THEN s * 8192 ELSE (s * 32767) \div 4

RECURSIVE samplesFrom(_, _)
samplesFrom(ab, i) ==
  IF i > ab.length THEN <<>>
  ELSE setLittleEndian(pcmOf(ab, i), 2) \o samplesFrom(ab, i + 1)

\* a variant that writes every channel's samples instead of a mono mix
audioBufferToWavInterleaved(ab) ==
  LET blockAlign == ab.numberOfChannels * 2
      dataSize == ab.length * blockAlign
  IN writeString("RIFF") \o setLittleEndian(36 + dataSize, 4) \o writeString("WAVE")
     \o writeString("fmt ") \o setLittleEndian(16, 4) \o setLittleEndian(1, 2)
     \o setLittleEndian(ab.numberOfChannels, 2) \o setLittleEndian(ab.sampleRate, 4)
     \o setLittleEndian(ab.sampleRate * blockAlign, 4) \o setLittleEndian(blockAlign, 2)
     \o setLittleEndian(16, 2) \o writeString("data") \o setLittleEndian(dataSize, 4)
     \o [k \in 1 .. dataSize |-> 0]

audioBufferToWav(ab) ==
  LET numChannels == 1
      sampleRate == ab.sampleRate
      format == 1
      bitDepth == 16
      bytesPerSample == bitDepth \div 8
      blockAlign == numChannels * bytesPerSample
      byteRate == sampleRate * blockAlign
      dataSize == ab.length * blockAlign
  IN writeString("RIFF") \o setLittleEndian(36 + dataSize, 4) \o writeString("WAVE")
     \o writeString("fmt ") \o setLittleEndian(16, 4) \o setLittleEndian(format, 2)
     \o setLittleEndian(numChannels, 2) \o setLittleEndian(sampleRate, 4)
     \o setLittleEndian(byteRate, 4) \o setLittleEndian(blockAlign, 2)
     \o setLittleEndian(bitDepth, 2) \o writeString("data") \o setLittleEndian(dataSize, 4)
     \o samplesFrom(ab, 1)

\* blobToWavBase64 converts the decoded buffer
blobToWav ==
  /\ wavIn # NoAudio
  /\ wavOut = <<>>
  /\ wavOut' = audioBufferToWav(wavIn)
  /\ UNCHANGED << sessionVars, apiReq, apiResp, wavIn, pcmIn, pcmOut >>

\* ------------------------------------------------------------------ chunk encoding
MaxSamples == 3
\* targetRate / sourceRate; 0 stands for an omitted argument
ChunkRates == {0, 16000, 48000}
\* sample values in quarters: -1.5, -1, -0.25, 0, 0.75, 1, 1.25
ChunkValues == {-6, -4, -1, 0, 3, 4, 5}

PcmInputs ==
  UNION { [float32 : [1 .. n -> ChunkValues], targetRate : ChunkRates, sourceRate : ChunkRates] :
          n \in 0 .. MaxSamples }
NoPcmInput == [float32 |-> <<>>, targetRate |-> 0, sourceRate |-> 0]
NoPcmOutput == << -1 >>

RECURSIVE Gcd(_, _)
Gcd(a, b) == IF b = 0 THEN a ELSE Gcd(b, a % b)

\* Math.floor towards minus infinity is \div; an Int16Array element takes the value
\* truncated towards zero
Truncate(num, den) == IF num < 0 THEN -((-num) \div den) ELSE num \div den

\* The linear interpolation of the resampling branch, as exact fractions: the result is
\* a sequence of numerators over the denominator 4 * t, t the reduced target rate.
resample(float32, targetRate, sourceRate) ==
  LET g == Gcd(sourceRate, targetRate)
      src == sourceRate \div g
      t == targetRate \div g
      outLen == (Len(float32) * t) \div src
  IN [i \in 1 .. outLen |->
        LET lo == ((i - 1) * src) \div t
            hi == IF lo + 1 < Len(float32) - 1 THEN lo + 1 ELSE Len(float32) - 1
            frac == ((i - 1) * src) % t
        IN float32[lo + 1] * (t - frac) + float32[hi + 1] * frac]

\* a variant that scales both signs by 0x7fff
toInt16Symmetric(num, den) ==
  LET s == IF num < -den THEN -den ELSE IF num > den THEN den ELSE num
  IN Truncate(s * 32767, den)

\* one Int16Array element from a sample given as num / den
toInt16(num, den) ==
  LET s == IF num < -den THEN -den ELSE IF num > den THEN den ELSE num
  IN IF s < 0 THEN Truncate(s * 32768, den) ELSE Truncate(s * 32767, den)

\* new Uint8Array(pcm.buffer): two bytes per element, low byte first
RECURSIVE bytesOf(_)
bytesOf(pcm) ==
  IF pcm = <<>> THEN <<>>
  ELSE << pcm[1] % 256, (pcm[1] \div 256) % 256 >> \o bytesOf(Tail(pcm))

\* btoa: three bytes give four 6-bit digits; 64 stands for the padding character '='
RECURSIVE btoa(_)
btoa(bytes) ==
  IF bytes = <<>> THEN <<>>
  ELSE IF Len(bytes) = 1
  THEN << bytes[1] \div 4, (bytes[1] % 4) * 16, 64, 64 >>
  ELSE IF Len(bytes) = 2
  THEN << bytes[1] \div 4, (bytes[1] % 4) * 16 + bytes[2] \div 16, (bytes[2] % 16) * 4, 64 >>
  ELSE << bytes[1] \div 4, (bytes[1] % 4) * 16 + bytes[2] \div 16,
          (bytes[2] % 16) * 4 + bytes[3] \div 64, bytes[3] % 64 >>
       \o btoa(SubSeq(bytes, 4, Len(bytes)))

float32ToPcmBase64(float32, targetRate, sourceRate) ==
  IF targetRate # 0 /\ sourceRate # 0 /\ targetRate # sourceRate
  THEN LET t == targetRate \div Gcd(sourceRate, targetRate)
           samples == resample(float32, targetRate, sourceRate)
       IN btoa(bytesOf([i \in 1 .. Len(samples) |-> toInt16(samples[i], 4 * t)]))
  ELSE btoa(bytesOf([i \in 1 .. Len(float32) |-> toInt16(float32[i], 4)]))

\* processor.onaudioprocess encodes one input buffer
onaudioprocess ==
  /\ pcmOut = NoPcmOutput
  /\ pcmOut' = float32ToPcmBase64(pcmIn.float32, pcmIn.targetRate, pcmIn.sourceRate)
  /\ UNCHANGED << sessionVars, apiReq, apiResp, wavIn, wavOut, pcmIn >>

\* Attempts, utterances and pipelines are numbered in the order they start; a slot is
\* "free" before its start and "dead" once nothing of it is left.
\* ph: "free" | "dead" | "mic" (await getUserMedia) | "token" (await fetchScribeToken) |
\*     "connecting" | "open" | "closing" (close or error event, onclose pending) |
\*     "closed" | "failed" (token error, no socket was created)
\* stream: "none" | "live" | "stopped";  graph: source/processor nodes connected
\* retry: the attempt was started by the channel-error branch (history)
\* strategy: the manualMode value in the closure of the startRecording that made the
\*           attempt; the socket is opened with commit_strategy manual iff it is TRUE
FreeCap == [ph |-> "free", stream |-> "none", graph |-> FALSE, retry |-> FALSE,
            strategy |-> FALSE]
DeadCap == [ph |-> "dead", stream |-> "none", graph |-> FALSE, retry |-> FALSE,
            strategy |-> FALSE]
\* ph: "free" | "fetch" | "wa" (AudioBufferSourceNode playing) |
\*     "waStopped" (stop() called, ended event pending) | "html" (Audio element playing)
\*     "htmlFailed" (Audio element whose error event ran done, play() rejection pending)
\* mode: the manualMode value in the closure of the onDone callback (startRecordingAfterAI)
FreeUtt == [ph |-> "free", text |-> <<>>, mode |-> FALSE]
DeadUtt == [ph |-> "dead", text |-> <<>>, mode |-> FALSE]
\* The manualMode prop of the render whose processUserInput is memoized: the page mounts
\* with useState(false) (src/api/transcribe.ts:137), and processUserInput is re-created
\* only when the system prompt changes (part_003:284), which no run of the model does.
MemoMode == FALSE
\* no journal entry saved yet
NoEntry == [fullTranscript |-> <<>>, preview |-> <<>>]
FreePipe == [ph |-> "free", nextWithUser |-> <<>>, session |-> 0]
DeadPipe == [ph |-> "dead", nextWithUser |-> <<>>, session |-> 0]

\* The state as one record, with the scratch fields trace, arg (the text the handler
\* received), gen (the manualMode value in the closure the handler runs in) and ovf (a
\* bound was hit).
Cur == [ status |-> status, errorMessage |-> errorMessage, isUserSpeaking |-> isUserSpeaking,
         isAiSpeaking |-> isAiSpeaking, caps |-> caps, streamRef |-> streamRef, wsRef |-> wsRef,
         graphRef |-> graphRef, playbackCtx |-> playbackCtx, utts |-> utts,
         currentAudioRef |-> currentAudioRef,
         currentPlaybackSourceRef |-> currentPlaybackSourceRef, pipes |-> pipes,
         transcript |-> transcript, isProcessing |-> isProcessing, isListening |-> isListening,
         lrArmed |-> lrArmed, lrOrphans |-> lrOrphans, mcArmed |-> mcArmed,
         mcOrphans |-> mcOrphans, manualBuffer |-> manualBuffer,
         pendingManualCommit |-> pendingManualCommit, manualMode |-> manualMode,
         pageTranscript |-> pageTranscript, entries |-> entries, newestEntry |-> newestEntry,
         lrModes |-> lrModes,
         trace |-> <<>>, arg |-> <<>>, gen |-> FALSE, ovf |-> FALSE ]

FreeIds(f, ids) == { i \in ids : f[i].ph = "free" }
LowestFree(f, ids) == CHOOSE i \in FreeIds(f, ids) : \A j \in FreeIds(f, ids) : i <= j

InitSession ==
  /\ status = "disconnected"
  /\ errorMessage = "none"
  /\ isUserSpeaking = FALSE
  /\ isAiSpeaking = FALSE
  /\ caps = [i \in CapIds |-> FreeCap]
  /\ streamRef = 0
  /\ wsRef = 0
  /\ graphRef = 0
  /\ playbackCtx = FALSE
  /\ utts = [u \in UttIds |-> FreeUtt]
  /\ currentAudioRef = 0
  /\ currentPlaybackSourceRef = 0
  /\ pipes = [p \in PipeIds |-> FreePipe]
  /\ transcript = <<>>
  /\ isProcessing = FALSE
  /\ isListening = FALSE
  /\ lrArmed = FALSE
  /\ lrOrphans = 0
  /\ mcArmed = FALSE
  /\ mcOrphans = 0
  /\ manualBuffer = <<>>
  /\ pendingManualCommit = FALSE
  /\ manualMode = FALSE
  /\ pageTranscript = <<>>
  /\ entries = 0
  /\ newestEntry = NoEntry
  /\ lrModes = [armed |-> FALSE, orphan |-> FALSE]
  /\ connects = 0
  /\ faults = 0
  /\ lastOp = [op |-> "init", preStatus |-> "disconnected", preProcessing |-> FALSE,
               preAiSpeaking |-> FALSE, preRetry |-> FALSE, preReply |-> FALSE,
               arg |-> <<>>]
  /\ trace = <<>>

\* the session on a page where no backend request and no conversion is modelled
Init ==
  /\ InitSession
  /\ apiReq = NoRequest
  /\ apiResp = NoResponse
  /\ wavIn = NoAudio
  /\ wavOut = <<>>
  /\ pcmIn = NoPcmInput
  /\ pcmOut = NoPcmOutput

\* a request has arrived at the backend
InitApi ==
  /\ InitSession
  /\ apiReq \in Requests
  /\ apiResp = NoResponse
  /\ wavIn = NoAudio
  /\ wavOut = <<>>
  /\ pcmIn = NoPcmInput
  /\ pcmOut = NoPcmOutput

\* a recording has been decoded
InitWav ==
  /\ InitSession
  /\ apiReq = NoRequest
  /\ apiResp = NoResponse
  /\ wavIn \in AudioBuffers
  /\ wavOut = <<>>
  /\ pcmIn = NoPcmInput
  /\ pcmOut = NoPcmOutput

\* the audio graph has delivered an input buffer
InitPcm ==
  /\ InitSession
  /\ apiReq = NoRequest
  /\ apiResp = NoResponse
  /\ wavIn = NoAudio
  /\ wavOut = <<>>
  /\ pcmIn \in PcmInputs
  /\ pcmOut = NoPcmOutput

\* ------------------------------------------------------------------ handlers
\* stopRecording (part_003:373-397)
stopRecording(s) ==
  LET s1 == IF s.wsRef # 0 /\ s.caps[s.wsRef].ph = "open"
            THEN [s EXCEPT !.caps[s.wsRef].ph = "closing", !.wsRef = 0]
            ELSE s
      s2 == IF s1.graphRef # 0
            THEN [s1 EXCEPT !.caps[s1.graphRef].graph = FALSE, !.graphRef = 0]
            ELSE s1
      s3 == IF s2.streamRef # 0
            THEN [s2 EXCEPT !.caps[s2.streamRef].stream = "stopped", !.streamRef = 0]
            ELSE s2
  IN [s3 EXCEPT !.isListening = FALSE, !.trace = Append(@, "stopRecording")]

\* startRecording (part_003:399-404, 551): the guard and the start of start(),
\* which suspends at getUserMedia
startRecording(s) ==
  IF s.isProcessing \/ s.isListening THEN s
  ELSE IF FreeIds(s.caps, CapIds) = {} THEN [s EXCEPT !.ovf = TRUE]
  ELSE [s EXCEPT !.caps[LowestFree(s.caps, CapIds)] =
                     [FreeCap EXCEPT !.ph = "mic", !.strategy = s.gen],
                 !.trace = Append(@, "startCapture")]

\* startRecordingAfterAI (part_003:585-592): arms the 700ms timer and overwrites the handle
startRecordingAfterAI(s) ==
  IF s.lrArmed /\ s.lrOrphans >= MaxOrphans THEN [s EXCEPT !.ovf = TRUE]
  ELSE [s EXCEPT !.lrOrphans = IF s.lrArmed THEN @ + 1 ELSE @,
                 !.lrModes = [armed |-> s.gen,
                              orphan |-> IF s.lrArmed THEN @.armed ELSE @.orphan],
                 !.lrArmed = TRUE,
                 !.trace = Append(@, "armListenTimer")]

\* done (part_003:294-299), with onDone = startRecordingAfterAI (part_003:615)
done(s) ==
  startRecordingAfterAI([s EXCEPT !.isAiSpeaking = FALSE])

\* speakWithVoiceApi (part_003:287-306): up to the issue of the synthesis request
speakWithVoiceApi(s, text) ==
  IF Trim(text) = <<>> THEN startRecordingAfterAI(s)
  ELSE IF FreeIds(s.utts, UttIds) = {} THEN [s EXCEPT !.ovf = TRUE]
  ELSE [s EXCEPT !.isAiSpeaking = TRUE,
                 !.errorMessage = "none",
                 !.utts[LowestFree(s.utts, UttIds)] = [ph |-> "fetch", text |-> text, mode |-> s.gen],
                 !.trace = Append(@, "synthReq")]

\* speak (part_003:594-618)
speak(s, text) ==
  IF Trim(text) = <<>> THEN startRecording(s)
  ELSE
    LET s1 == IF s.currentAudioRef # 0
              THEN [s EXCEPT !.utts[s.currentAudioRef] = DeadUtt, !.currentAudioRef = 0]
              ELSE s
        s2 == IF s1.currentPlaybackSourceRef # 0
              THEN [s1 EXCEPT !.utts[s1.currentPlaybackSourceRef].ph = "waStopped",
                              !.currentPlaybackSourceRef = 0]
              ELSE s1
    IN speakWithVoiceApi(s2, text)

\* beginTurn with the dialogue request built from the transcript as it was before the
\* user entry was appended
beginTurnStalePayload(s, userText) ==
  LET s1 == stopRecording([s EXCEPT !.isProcessing = TRUE])
      nextWithUser == Append(s1.transcript, [role |-> "user", text |-> userText])
  IN IF FreeIds(s1.pipes, PipeIds) = {} \/ Len(nextWithUser) >= MaxTranscript
     THEN [s1 EXCEPT !.ovf = TRUE]
     ELSE [s1 EXCEPT !.transcript = nextWithUser,
                     !.pageTranscript = nextWithUser,
                     !.trace = @ \o <<"dialogueReq", "appendUser">>,
                     !.pipes[LowestFree(s1.pipes, PipeIds)] =
                         [ph |-> "dialogue", nextWithUser |-> s1.transcript, session |-> 0]]

\* processUserInput after its guard (part_003:257-270): up to the issue of the dialogue request
beginTurn(s, userText) ==
  LET s1 == stopRecording([s EXCEPT !.isProcessing = TRUE])
      nextWithUser == Append(s1.transcript, [role |-> "user", text |-> userText])
  IN IF FreeIds(s1.pipes, PipeIds) = {} \/ Len(nextWithUser) >= MaxTranscript
     THEN [s1 EXCEPT !.ovf = TRUE]
     ELSE [s1 EXCEPT !.transcript = nextWithUser,
                     !.pageTranscript = nextWithUser,
                     !.trace = @ \o <<"appendUser", "dialogueReq">>,
                     !.pipes[LowestFree(s1.pipes, PipeIds)] =
                         [ph |-> "dialogue", nextWithUser |-> nextWithUser, session |-> 0]]

\* processUserInput without the isProcessingRef test
processUserInputNoGuard(s, userText) ==
  IF Trim(userText) = <<>> THEN s
  ELSE beginTurn(s, userText)

\* processUserInput (part_003:254-256): the guard
processUserInput(s, userText) ==
  IF s.isProcessing \/ Trim(userText) = <<>> THEN s
  ELSE beginTurn(s, userText)

\* processUserInput (part_003:271-274, 280-282): the dialogue call resolved; speak() has no
\* await inside, so "await speak(question)" and the finally block follow in the same task
processUserInputResolved(s, p, question) ==
  LET nextWithAi == Append(s.pipes[p].nextWithUser, [role |-> "ai", text |-> question])
      s1 == [s EXCEPT !.transcript = nextWithAi,
                      !.pageTranscript = nextWithAi,
                      !.trace = Append(@, "appendAi"),
                      !.pipes[p] = DeadPipe,
                      !.gen = MemoMode]
      s2 == speak(s1, question)
  IN [s2 EXCEPT !.isProcessing = FALSE]

\* the rejected dialogue call leaving isProcessingRef set
processUserInputRejectedKeepFlag(s, p) ==
  [s EXCEPT !.errorMessage = "dialogue",
            !.status = "error",
            !.pipes[p] = DeadPipe]

\* processUserInput (part_003:275-282): the dialogue call rejected
processUserInputRejected(s, p) ==
  [s EXCEPT !.errorMessage = "dialogue",
            !.status = "error",
            !.isProcessing = FALSE,
            !.pipes[p] = DeadPipe]

\* speakWithVoiceApi .then (part_003:307-362): the audio arrived.  path = "wa" is the Web
\* Audio branch (needs a playback context and a non-iOS browser), "html" the Audio element
\* branch, also taken when the Web Audio branch throws.
voiceResolved(s, u, path) ==
  IF path = "wa" /\ s.playbackCtx
  THEN [s EXCEPT !.utts[u].ph = "wa", !.currentPlaybackSourceRef = u,
                 !.trace = Append(@, "play")]
  ELSE [s EXCEPT !.utts[u].ph = "html", !.currentAudioRef = u,
                 !.trace = Append(@, "play")]

\* speakWithVoiceApi .catch (part_003:363-368)
voiceRejected(s, u) ==
  done([s EXCEPT !.errorMessage = "voice", !.utts[u] = DeadUtt, !.gen = s.utts[u].mode])

\* source.onended (part_003:349-352) and audioEl.onended (part_003:319-323)
playbackEnded(s, u) ==
  IF s.utts[u].ph = "html"
  THEN done([s EXCEPT !.currentAudioRef = 0, !.utts[u] = DeadUtt,
                      !.gen = s.utts[u].mode])
  ELSE done([s EXCEPT !.currentPlaybackSourceRef = 0, !.utts[u] = DeadUtt,
                      !.gen = s.utts[u].mode])

\* audioEl.onerror (part_003:324-329).  When the element cannot load its source the
\* browser fires the error event and also rejects the promise of play(); rejected says
\* whether that rejection is still to come.
playbackError(s, u, rejected) ==
  done([s EXCEPT !.currentAudioRef = 0, !.errorMessage = "playback",
                 !.utts[u] = IF rejected THEN [@ EXCEPT !.ph = "htmlFailed"] ELSE DeadUtt,
                 !.gen = s.utts[u].mode])

\* audioEl.play().catch (part_003:331-336)
playRejected(s, u) ==
  done([s EXCEPT !.currentAudioRef = 0, !.errorMessage = "playback", !.utts[u] = DeadUtt,
                 !.gen = s.utts[u].mode])

\* startRecordingAfterAI timer callback (part_003:587-591)
listenTimerFired(s) ==
  startRecording([s EXCEPT !.lrArmed = FALSE])

\* connect (part_003:620-633); m is the manualMode prop of the render that connects
connect(s, m) ==
  speak([s EXCEPT !.status = "connected",
                  !.errorMessage = "none",
                  !.transcript = <<>>,
                  !.playbackCtx = TRUE,
                  !.manualMode = m,
                  !.gen = m], Greeting)

\* disconnect (part_003:635-671)
disconnect(s) ==
  LET s1 == [s EXCEPT !.mcArmed = FALSE, !.lrArmed = FALSE]
      s2 == IF s1.currentAudioRef # 0
            THEN [s1 EXCEPT !.utts[s1.currentAudioRef] = DeadUtt, !.currentAudioRef = 0]
            ELSE s1
      s3 == IF s2.currentPlaybackSourceRef # 0
            THEN [s2 EXCEPT !.utts[s2.currentPlaybackSourceRef].ph = "waStopped",
                            !.currentPlaybackSourceRef = 0]
            ELSE s2
      s4 == stopRecording([s3 EXCEPT !.playbackCtx = FALSE])
  IN [s4 EXCEPT !.status = "disconnected",
                !.errorMessage = "none",
                !.isUserSpeaking = FALSE,
                !.isAiSpeaking = FALSE,
                !.isProcessing = FALSE,
                !.isListening = FALSE,
                !.manualBuffer = <<>>,
                !.pendingManualCommit = FALSE]

\* transcriptToPreview (useJournalHistory.ts:49-53): the texts joined by single spaces;
\* when longer than maxLen, the first maxLen characters, trimmed, and an ellipsis
\* ("..." stands for the one character U+2026)
transcriptToPreview(messages, maxLen) ==
  LET text == Join([k \in 1 .. Len(messages) |-> messages[k].text])
  IN IF Len(text) <= maxLen THEN text
     ELSE Trim(SubSeq(text, 1, maxLen)) \o <<"...">>

\* saveEntry (useJournalHistory.ts:66-79): a non-empty transcript is prepended as an entry
saveEntry(s, messages) ==
  IF Len(messages) = 0 THEN s
  ELSE [s EXCEPT !.entries = @ + 1,
                 !.newestEntry = [fullTranscript |-> messages,
                                  preview |-> transcriptToPreview(messages, PreviewLen)],
                 !.trace = Append(@, "saveEntry")]

\* handleDisconnect that saves the page transcript but does not clear it
handleDisconnectKeepTranscript(s) ==
  disconnect(IF Len(s.pageTranscript) > 0 THEN saveEntry(s, s.pageTranscript) ELSE s)

\* handleDisconnect (src/api/transcribe.ts:203-212) with saveEntry
\* (useJournalHistory.ts:66-79): the page saves its transcript, clears it and disconnects
handleDisconnect(s) ==
  disconnect(IF Len(s.pageTranscript) > 0
             THEN [saveEntry(s, s.pageTranscript) EXCEPT !.pageTranscript = <<>>]
             ELSE s)

\* the page's effect on isConnected (src/api/transcribe.ts:213-218): when the status
\* leaves connected the page clears its transcript
pageEffect(wasConnected, s) ==
  IF wasConnected /\ s.status # "connected" THEN [s EXCEPT !.pageTranscript = <<>>] ELSE s

\* start() after getUserMedia resolved (part_003:404-416): stream and capture context are
\* stored, the token request is issued
micGranted(s, i) ==
  [s EXCEPT !.caps[i].stream = "live", !.caps[i].ph = "token", !.streamRef = i]

\* start() catch (part_003:544-548)
startFailed(s, i) ==
  [s EXCEPT !.caps[i].ph = "failed", !.errorMessage = "scribe", !.status = "error"]

\* start() after fetchScribeToken resolved (part_003:417-434): the socket is created
tokenResolved(s, i) ==
  [s EXCEPT !.caps[i].ph = "connecting", !.wsRef = i]

\* ws.onopen (part_003:503-543); ok = FALSE when building the capture graph throws
wsOpened(s, i, ok) ==
  IF ok
  THEN [s EXCEPT !.errorMessage = "none",
                 !.caps[i].ph = "open",
                 !.caps[i].graph = TRUE,
                 !.graphRef = i,
                 !.isListening = TRUE,
                 !.isUserSpeaking = TRUE,
                 !.manualBuffer = IF s.manualMode THEN <<>> ELSE @,
                 !.trace = Append(@, "listening")]
  ELSE [s EXCEPT !.errorMessage = "mic",
                 !.status = "error",
                 !.caps[i].ph = "closing"]

\* ws.onerror (part_003:436-439); the browser closes the socket after the error event
wsError(s, i) ==
  [s EXCEPT !.errorMessage = "socket", !.status = "error", !.caps[i].ph = "closing"]

\* ws.onclose (part_003:441-443)
wsClosed(s, i) ==
  [s EXCEPT !.wsRef = 0, !.caps[i].ph = "closed"]

\* finalizeManual that leaves the pending-commit flag set
finalizeManualKeepPending(s) ==
  LET fullText == Trim(Join(s.manualBuffer))
      s1 == stopRecording([s EXCEPT !.manualBuffer = <<>>])
  IN IF fullText # <<>> THEN processUserInput(s1, fullText) ELSE s1

\* the finalize steps shared by the acknowledgement branch (part_003:473-480) and the
\* timeout callback (part_003:576-580)
finalizeManual(s) ==
  LET fullText == Trim(Join(s.manualBuffer))
      s1 == stopRecording([s EXCEPT !.manualBuffer = <<>>, !.pendingManualCommit = FALSE])
  IN IF fullText # <<>> THEN processUserInput(s1, fullText) ELSE s1

\* ws.onmessage, committed_transcript branch (part_003:457-490)
committedTranscript(s, raw) ==
  LET text == Trim(raw)
      s0 == [s EXCEPT !.arg = text]
  IN IF text = <<>> THEN s0
     ELSE IF s0.isAiSpeaking THEN s0
     ELSE IF s0.manualMode
     THEN IF Len(s0.manualBuffer) >= MaxBuf THEN [s0 EXCEPT !.ovf = TRUE]
          ELSE LET s1 == [s0 EXCEPT !.manualBuffer = Append(@, text)]
               IN IF s1.pendingManualCommit
                  THEN finalizeManual([s1 EXCEPT !.mcArmed = FALSE])
                  ELSE s1
     ELSE processUserInput(stopRecording(s0), text)

\* ws.onmessage, error / auth_error / quota_exceeded branch (part_003:491-497)
scribeError(s) ==
  startRecording(stopRecording([s EXCEPT !.errorMessage = "scribe"]))

\* commitManual (part_003:554-573): the guards, the flag and the 1500ms timer
commitManual(s) ==
  IF s.wsRef = 0 \/ s.caps[s.wsRef].ph # "open" \/ ~s.isListening THEN s
  ELSE IF s.isAiSpeaking THEN s
  ELSE IF s.mcArmed /\ s.mcOrphans >= MaxOrphans THEN [s EXCEPT !.ovf = TRUE]
  ELSE [s EXCEPT !.pendingManualCommit = TRUE,
                 !.mcOrphans = IF s.mcArmed THEN @ + 1 ELSE @,
                 !.mcArmed = TRUE,
                 !.trace = Append(@, "armCommitTimer")]

\* commitTimerFired without the test of the buffer length
commitTimerFiredNoLengthTest(s) ==
  LET s1 == [s EXCEPT !.mcArmed = FALSE]
  IN IF s1.pendingManualCommit THEN finalizeManual(s1) ELSE s1

\* commitManual timeout callback (part_003:573-582)
commitTimerFired(s) ==
  LET s1 == [s EXCEPT !.mcArmed = FALSE]
  IN IF s1.pendingManualCommit /\ Len(s1.manualBuffer) > 0
     THEN finalizeManual(s1)
     ELSE s1

\* ------------------------------------------------------------------ actions
\* A capture attempt whose socket is gone and which holds nothing live is forgotten.
Collect(c) ==
  [i \in CapIds |->
     IF c[i].ph \in {"closed", "failed"} /\ c[i].stream # "live" /\ ~c[i].graph
     THEN DeadCap ELSE c[i]]

\* the events by which the environment reports a failure
FaultOps == {"DialogueFail", "VoiceFail", "PlaybackError", "StartFail", "WsOpenFail",
             "WsError", "WsCloseRemote", "ScribeError"}

Op(name, id) ==
  [op |-> name, preStatus |-> status, preProcessing |-> isProcessing,
   preAiSpeaking |-> isAiSpeaking,
   preRetry |-> IF name = "ScribeError" THEN caps[id].retry ELSE FALSE,
   preReply |-> IF name \in {"VoiceOk", "VoiceFail"} THEN utts[id].text # Greeting ELSE FALSE,
   arg |-> <<>>]

\* The handler's result r becomes the next state, if the run stays within the budget B.
Apply(r, name, id, B) ==
  /\ ~r.ovf
  /\ \A i \in CapIds : i > B.caps => r.caps[i].ph = "free"
  /\ \A u \in UttIds : u > B.utts => r.utts[u].ph = "free"
  /\ \A p \in PipeIds : p > B.pipes => r.pipes[p].ph = "free"
  /\ status' = r.status
  /\ errorMessage' = r.errorMessage
  /\ isUserSpeaking' = r.isUserSpeaking
  /\ isAiSpeaking' = r.isAiSpeaking
  /\ caps' = IF B.modes THEN Collect(r.caps)
             ELSE [i \in CapIds |-> [Collect(r.caps)[i] EXCEPT !.strategy = FALSE]]
  /\ streamRef' = r.streamRef
  /\ wsRef' = r.wsRef
  /\ graphRef' = r.graphRef
  /\ playbackCtx' = r.playbackCtx
  /\ utts' = IF B.modes THEN r.utts
             ELSE [u \in UttIds |-> [r.utts[u] EXCEPT !.mode = FALSE]]
  /\ currentAudioRef' = r.currentAudioRef
  /\ currentPlaybackSourceRef' = r.currentPlaybackSourceRef
  /\ pipes' = IF B.sessions
              THEN [p \in PipeIds |->
                      IF r.pipes[p].ph = "dialogue" /\ pipes[p].ph = "free"
                      THEN [r.pipes[p] EXCEPT !.session = connects]
                      ELSE r.pipes[p]]
              ELSE r.pipes
  /\ transcript' = r.transcript
  /\ isProcessing' = r.isProcessing
  /\ isListening' = r.isListening
  /\ lrArmed' = r.lrArmed
  /\ lrOrphans' = r.lrOrphans
  /\ mcArmed' = r.mcArmed
  /\ mcOrphans' = r.mcOrphans
  /\ manualBuffer' = r.manualBuffer
  /\ pendingManualCommit' = r.pendingManualCommit
  /\ manualMode' = r.manualMode
  /\ pageTranscript' = IF B.page THEN pageEffect(status = "connected", r).pageTranscript
                       ELSE <<>>
  /\ entries' = IF B.page THEN r.entries ELSE 0
  /\ newestEntry' = IF B.page THEN r.newestEntry ELSE NoEntry
  /\ lrModes' = IF B.modes
                THEN [armed |-> r.lrArmed /\ r.lrModes.armed,
                      orphan |-> r.lrOrphans > 0 /\ r.lrModes.orphan]
                ELSE [armed |-> FALSE, orphan |-> FALSE]
  /\ UNCHANGED << apiReq, apiResp, wavIn, wavOut, pcmIn, pcmOut >>
  /\ connects' = IF name = "Connect" THEN connects + 1 ELSE connects
  /\ name \in FaultOps => faults < B.faults
  /\ faults' = IF name \in FaultOps THEN faults + 1 ELSE faults
  /\ lastOp' = [Op(name, id) EXCEPT !.arg = r.arg]
  /\ trace' = r.trace

\* The Connect button is shown whenever the status is not connected (ConnectButton,
\* src/api/transcribe.ts:519-525); the manual-mode toggle is enabled in the same statuses.
Connect(B) ==
  /\ status \in {"disconnected", "error"}
  /\ connects < B.connects
  /\ \E m \in BOOLEAN : Apply(connect(Cur, m), "Connect", 0, B)

\* disconnect is exported by the hook and has no guard of its own; the page calls it from
\* handleDisconnect
Disconnect(B) ==
  /\ status \in {"disconnected", "connected", "error"}
  /\ Apply(handleDisconnect(Cur), "Disconnect", 0, B)

\* The Done button is rendered while connected, in manual mode, with isUserSpeaking
\* (src/api/transcribe.ts:382-385); a call the guards of commitManual reject changes nothing.
CommitManual(B) ==
  /\ status = "connected" /\ manualMode /\ isUserSpeaking
  /\ commitManual(Cur) # Cur
  /\ Apply(commitManual(Cur), "CommitManual", 0, B)

\* Timers of equal delay fire in the order they were armed: the timers whose handle was
\* overwritten are older than the one the handle names.
ListenTimerFire(B) ==
  /\ lrArmed \/ lrOrphans > 0
  /\ Apply(listenTimerFired([Cur EXCEPT !.lrOrphans = IF lrArmed \/ @ = 0 THEN @ ELSE @ - 1,
                                        !.gen = IF lrArmed THEN lrModes.armed
                                                ELSE lrModes.orphan]),
           "ListenTimerFire", 0, B)

CommitTimerFire(B) ==
  /\ mcArmed \/ mcOrphans > 0
  /\ Apply(commitTimerFired([Cur EXCEPT !.mcOrphans = IF mcArmed \/ @ = 0 THEN @ ELSE @ - 1]),
           "CommitTimerFire", 0, B)

DialogueOk(B) ==
  \E p \in PipeIds, q \in Replies :
    /\ pipes[p].ph = "dialogue"
    /\ Apply(processUserInputResolved(Cur, p, q), "DialogueOk", p, B)

DialogueFail(B) ==
  \E p \in PipeIds :
    /\ pipes[p].ph = "dialogue"
    /\ Apply(processUserInputRejected(Cur, p), "DialogueFail", p, B)

VoiceOk(B) ==
  \E u \in UttIds, path \in {"wa", "html"} :
    /\ utts[u].ph = "fetch"
    /\ path = "wa" => playbackCtx
    /\ Apply(voiceResolved(Cur, u, path), "VoiceOk", u, B)

VoiceFail(B) ==
  \E u \in UttIds :
    /\ utts[u].ph = "fetch"
    /\ Apply(voiceRejected(Cur, u), "VoiceFail", u, B)

PlaybackEnded(B) ==
  \E u \in UttIds :
    /\ utts[u].ph \in {"wa", "waStopped", "html"}
    /\ Apply(playbackEnded(Cur, u), "PlaybackEnded", u, B)

PlaybackError(B) ==
  \E u \in UttIds, rejected \in (IF B.rejects THEN BOOLEAN ELSE {FALSE}) :
    /\ utts[u].ph = "html"
    /\ Apply(playbackError(Cur, u, rejected), "PlaybackError", u, B)

PlayRejected(B) ==
  \E u \in UttIds :
    /\ utts[u].ph = "htmlFailed"
    /\ Apply(playRejected(Cur, u), "PlayRejected", u, B)

MicGranted(B) ==
  \E i \in CapIds :
    /\ caps[i].ph = "mic"
    /\ Apply(micGranted(Cur, i), "MicGranted", i, B)

\* getUserMedia or fetchScribeToken rejected
StartFail(B) ==
  \E i \in CapIds :
    /\ caps[i].ph \in {"mic", "token"}
    /\ Apply(startFailed(Cur, i), "StartFail", i, B)

TokenOk(B) ==
  \E i \in CapIds :
    /\ caps[i].ph = "token"
    /\ Apply(tokenResolved(Cur, i), "TokenOk", i, B)

WsOpen(B) ==
  \E i \in CapIds, ok \in BOOLEAN :
    /\ caps[i].ph = "connecting"
    /\ Apply(wsOpened(Cur, i, ok), IF ok THEN "WsOpen" ELSE "WsOpenFail", i, B)

WsError(B) ==
  \E i \in CapIds :
    /\ caps[i].ph \in {"connecting", "open"}
    /\ Apply(wsError(Cur, i), "WsError", i, B)

\* the close event: after close() or an error, or when the server closes the socket
WsClose(B) ==
  \E i \in CapIds :
    /\ caps[i].ph \in {"closing", "open"}
    /\ Apply(wsClosed(Cur, i), IF caps[i].ph = "open" THEN "WsCloseRemote" ELSE "WsClose", i, B)

\* message events are delivered only while readyState is OPEN
CommittedTranscript(B) ==
  \E i \in CapIds, raw \in B.frags :
    /\ caps[i].ph = "open"
    /\ Apply(committedTranscript(Cur, raw), "CommittedTranscript", i, B)

\* the attempt the error branch starts is marked as the automatic retry
ScribeError(B) ==
  \E i \in CapIds :
    /\ caps[i].ph = "open"
    /\ LET r == scribeError([Cur EXCEPT !.gen = caps[i].strategy])
       IN Apply([r EXCEPT !.caps = [j \in CapIds |->
                     IF r.caps[j].ph = "mic" /\ caps[j].ph # "mic"
                     THEN [r.caps[j] EXCEPT !.retry = TRUE] ELSE r.caps[j]]],
                "ScribeError", i, B)

Step(B) ==
  \/ Connect(B)
  \/ Disconnect(B)
  \/ CommitManual(B)
  \/ ListenTimerFire(B)
  \/ CommitTimerFire(B)
  \/ DialogueOk(B)
  \/ DialogueFail(B)
  \/ VoiceOk(B)
  \/ VoiceFail(B)
  \/ PlaybackEnded(B)
  \/ PlaybackError(B)
  \/ MicGranted(B)
  \/ StartFail(B)
  \/ TokenOk(B)
  \/ WsOpen(B)
  \/ WsError(B)
  \/ WsClose(B)
  \/ CommittedTranscript(B)
  \/ ScribeError(B)

Next == Step(Budget)
NextRetry == Step(RetryBudget)
NextPage == Step(PageBudget)
NextLive == Step(LiveBudget)
NextRejoin == Step(RejoinBudget)
NextMode == Step(ModeBudget)
NextPersist == Step(PersistBudget)
NextSession == Step(SessionBudget)
NextReject == Step(RejectBudget) \/ PlayRejected(RejectBudget)

NextApi ==
  \/ ServeInterviewer
  \/ ServeVoice
  \/ ServeTranscribe
  \/ ServeReformat
  \/ ServeVoices
  \/ ServeScribeToken
NextWav == blobToWav
NextPcm == onaudioprocess

Spec == Init /\ [][Next]_vars
SpecApi == InitApi /\ [][NextApi]_vars
SpecWav == InitWav /\ [][NextWav]_vars
SpecPcm == InitPcm /\ [][NextPcm]_vars
SpecRetry == Init /\ [][NextRetry]_vars
SpecPage == Init /\ [][NextPage]_vars
SpecMode == Init /\ [][NextMode]_vars
SpecSession == Init /\ [][NextSession]_vars
SpecReject == Init /\ [][NextReject]_vars
\* Timers fire and requests settle: a timeout that is due runs its callback, and the
\* dialogue request resolves or rejects.
SpecLive ==
  /\ Init /\ [][NextLive]_vars
  /\ WF_vars(ListenTimerFire(LiveBudget))
  /\ WF_vars(DialogueOk(LiveBudget) \/ DialogueFail(LiveBudget))
\* One session with the page's transcript and journal tracked; timers fire, and the
\* dialogue request, the synthesis request and a playing audio element settle.
SpecPersist ==
  /\ Init /\ [][NextPersist]_vars
  /\ WF_vars(ListenTimerFire(PersistBudget))
  /\ WF_vars(DialogueOk(PersistBudget) \/ DialogueFail(PersistBudget))
  /\ WF_vars(VoiceOk(PersistBudget) \/ VoiceFail(PersistBudget))
  /\ WF_vars(PlaybackEnded(PersistBudget) \/ PlaybackError(PersistBudget))

\* A user who connects again after a disconnect; besides the timers and the dialogue
\* request, the synthesis request settles and a playing audio element ends or fails.
SpecRejoin ==
  /\ Init /\ [][NextRejoin]_vars
  /\ WF_vars(ListenTimerFire(RejoinBudget))
  /\ WF_vars(DialogueOk(RejoinBudget) \/ DialogueFail(RejoinBudget))
  /\ WF_vars(VoiceOk(RejoinBudget) \/ VoiceFail(RejoinBudget))
  /\ WF_vars(PlaybackEnded(RejoinBudget) \/ PlaybackError(RejoinBudget))

TypeOK ==
  /\ status \in {"disconnected", "connecting", "connected", "error"}
  /\ streamRef \in {0} \cup CapIds /\ wsRef \in {0} \cup CapIds /\ graphRef \in {0} \cup CapIds
  /\ Len(transcript) <= MaxTranscript
  /\ Len(manualBuffer) <= MaxBuf
  /\ lrOrphans \in 0 .. MaxOrphans /\ mcOrphans \in 0 .. MaxOrphans
  /\ Len(pageTranscript) <= MaxTranscript
  /\ entries \in Nat
  /\ Len(newestEntry.fullTranscript) <= MaxTranscript
  /\ Len(newestEntry.preview) <= PreviewLen + 1
  /\ lrModes \in [armed : BOOLEAN, orphan : BOOLEAN]
  /\ \A i \in CapIds : caps[i].strategy \in BOOLEAN
  /\ \A u \in UttIds : utts[u].mode \in BOOLEAN

\* ------------------------------------------------------------------ claims
Has(tr, e) == \E k \in 1 .. Len(tr) : tr[k] = e
InTrace(e) == Has(trace, e)
\* the handlers that can finalize a user turn
FinalizeOps == {"CommittedTranscript", "CommitTimerFire"}
\* the handlers that run when a dialogue or synthesis response arrives
ResponseOps == {"DialogueOk", "DialogueFail", "VoiceOk", "VoiceFail"}

\* C1: a finalize event (committed transcript, manual acknowledgement, manual timeout)
\* handled while isProcessingRef is true appends nothing to the transcript and issues no
\* dialogue request and no synthesis request.
C1_ExclusiveFinalize ==
  [][(isProcessing /\ lastOp'.op \in FinalizeOps) =>
       (transcript' = transcript /\ pipes' = pipes /\ utts' = utts)]_vars

\* C1 witness: a finalize event got as far as the call of processUserInput while a turn
\* was in flight.
C1_Witness ==
  lastOp.op \in FinalizeOps /\ lastOp.preProcessing /\ InTrace("stopRecording")

\* C2 (as claimed): isProcessingRef is true whenever the reply of a turn is being
\* synthesized or played.
C2_ProcessingUntilPlayed ==
  \A u \in UttIds :
    (utts[u].ph \in {"fetch", "wa", "html"} /\ utts[u].text # Greeting) => isProcessing

\* C3 (as claimed): a finalize event (committed transcript or manual-commit timeout expiry)
\* handled while isAiSpeaking is true leaves the transcript unchanged and issues no
\* dialogue request.
C3_EchoGuard ==
  [][(isAiSpeaking /\ lastOp'.op \in FinalizeOps) =>
       (transcript' = transcript /\ pipes' = pipes)]_vars

\* C4: in every turn the user entry is appended before the dialogue request is issued, the
\* request carries the transcript ending with that entry, the reply is appended right after
\* that entry, and the synthesis request for the reply is issued only after the append.
C4_TurnOrder ==
  /\ \A k \in 1 .. Len(trace) :
       trace[k] = "dialogueReq" =>
         /\ k > 1 /\ trace[k - 1] = "appendUser"
         /\ \E p \in PipeIds :
              /\ pipes[p].ph = "dialogue"
              /\ pipes[p].nextWithUser = transcript
              /\ transcript[Len(transcript)].role = "user"
  /\ lastOp.op = "DialogueOk" =>
       /\ InTrace("appendAi")
       /\ Len(transcript) >= 2
       /\ transcript[Len(transcript)].role = "ai"
       /\ transcript[Len(transcript) - 1].role = "user"
       /\ \A k \in 1 .. Len(trace) :
            trace[k] = "synthReq" =>
              /\ \E j \in 1 .. k - 1 : trace[j] = "appendAi"
              /\ \E u \in UttIds :
                   utts[u].ph = "fetch" /\ utts[u].text = transcript[Len(transcript)].text

\* C4 witness: a dialogue reply was appended and its synthesis requested.
C4_Witness ==
  lastOp.op = "DialogueOk" /\ InTrace("synthReq")

\* C5 (as claimed): at most one microphone stream, one socket and one capture graph are
\* live at any moment.
C5_OneResourceSet ==
  /\ Cardinality({i \in CapIds : caps[i].stream = "live"}) <= 1
  /\ Cardinality({i \in CapIds : caps[i].ph \in {"connecting", "open"}}) <= 1
  /\ Cardinality({i \in CapIds : caps[i].graph}) <= 1

\* C6 (as claimed): a dialogue or synthesis response handled after disconnect() (and before
\* the next connect()) changes neither the transcript, nor isAiSpeaking, nor the playback
\* handles, nor the listen-restart timer, nor the capture attempts, nor the status.
C6_LateResponseIgnored ==
  [][(status = "disconnected" /\ lastOp'.op \in ResponseOps) =>
       /\ transcript' = transcript
       /\ isAiSpeaking' = isAiSpeaking
       /\ currentAudioRef' = currentAudioRef
       /\ currentPlaybackSourceRef' = currentPlaybackSourceRef
       /\ lrArmed' = lrArmed /\ lrOrphans' = lrOrphans
       /\ caps' = caps
       /\ status' = status]_vars

\* C7 (as claimed): right after disconnect() the status is disconnected, the flags are
\* false, the manual buffer is empty and every handle is null.
C7_DisconnectTearsDown ==
  lastOp.op = "Disconnect" =>
    /\ status = "disconnected"
    /\ ~isProcessing /\ ~isListening /\ ~isAiSpeaking
    /\ manualBuffer = <<>> /\ ~pendingManualCommit
    /\ streamRef = 0 /\ graphRef = 0 /\ wsRef = 0
    /\ currentPlaybackSourceRef = 0 /\ currentAudioRef = 0 /\ ~playbackCtx

\* C8 (as claimed): between disconnect() and the next connect() no timer callback and no
\* playback-ended callback starts capture or finalizes a turn.
C8_NoCallbackAfterDisconnect ==
  [][(status = "disconnected"
        /\ lastOp'.op \in {"ListenTimerFire", "CommitTimerFire", "PlaybackEnded"}) =>
       (~Has(trace', "startCapture") /\ ~Has(trace', "appendUser"))]_vars

\* C9 (as claimed): after a failed dialogue request, or a failed synthesis request of a
\* turn's reply, the status is error, a message is set, isProcessingRef is false, and the
\* failure handler armed no listen-restart timer and started no capture.
C9_FailureStopsTurn ==
  (lastOp.op = "DialogueFail" \/ (lastOp.op = "VoiceFail" /\ lastOp.preReply)) =>
    /\ status = "error"
    /\ errorMessage # "none"
    /\ ~isProcessing
    /\ ~InTrace("armListenTimer") /\ ~InTrace("startCapture")

\* C10 (as claimed): when the channel reopened by the automatic retry reports an error
\* again, no further capture attempt is started and the status is error.
C10_SingleRetry ==
  (lastOp.op = "ScribeError" /\ lastOp.preRetry) =>
    (status = "error" /\ ~InTrace("startCapture"))

\* C11 (as claimed): in manual mode, a non-blank committed fragment that arrives while a
\* commit request is pending finalizes the turn at once: the user entry appended is the
\* buffered fragments and the new one, in order, joined by single spaces, the dialogue
\* request is issued, the buffer and the flag are cleared and the timeout is cancelled.
C11_AckFinalizes ==
  [][(manualMode /\ pendingManualCommit
        /\ lastOp'.op = "CommittedTranscript" /\ lastOp'.arg # <<>>) =>
       /\ transcript' = Append(transcript,
              [role |-> "user", text |-> Join(Append(manualBuffer, lastOp'.arg))])
       /\ Has(trace', "dialogueReq")
       /\ ~mcArmed' /\ manualBuffer' = <<>> /\ ~pendingManualCommit']_vars

\* C12 (as claimed): in manual mode, when a commit timeout expires while the request is
\* pending and exactly one fragment is buffered, the turn is finalized and the user entry
\* appended has exactly that fragment's text.
C12_TimeoutFinalizes ==
  [][(manualMode /\ pendingManualCommit /\ Len(manualBuffer) = 1
        /\ lastOp'.op = "CommitTimerFire") =>
       /\ transcript' = Append(transcript, [role |-> "user", text |-> manualBuffer[1]])
       /\ Has(trace', "dialogueReq")]_vars

\* C13: a commit timeout that expires while the manual buffer is empty finalizes nothing and
\* stops nothing: the transcript, the dialogue and synthesis requests, isListening,
\* isUserSpeaking, the status and the microphone stream, socket and capture graph are
\* unchanged.
C13_EmptyTimeoutKeepsListening ==
  [][(manualBuffer = <<>> /\ lastOp'.op = "CommitTimerFire") =>
       UNCHANGED << transcript, pipes, utts, isListening, isUserSpeaking, status, caps,
                    streamRef, wsRef, graphRef, isProcessing >>]_vars

\* C13 witness: a commit timeout expired with an empty buffer in a manual session that is
\* still listening on its open socket.
C13_Witness ==
  /\ lastOp.op = "CommitTimerFire" /\ manualMode /\ manualBuffer = <<>>
  /\ pendingManualCommit
  /\ isListening /\ wsRef # 0 /\ caps[wsRef].ph = "open" /\ streamRef # 0 /\ graphRef # 0

\* C14 (as claimed): once no commit timeout is pending any more (every deadline expired or
\* was cancelled), a committed fragment that arrives in manual mode is only buffered: it
\* does not finalize a turn on behalf of a request whose deadline has passed.
C14_ExpiredRequestStaysResolved ==
  [][(manualMode /\ ~mcArmed /\ mcOrphans = 0 /\ lastOp'.op = "CommittedTranscript") =>
       (transcript' = transcript /\ pipes' = pipes /\ isListening' = isListening)]_vars

\* C15: right after a manual-mode finalize (acknowledgement or timeout branch) the manual
\* buffer is empty, the pending-commit flag is false and isListening is false; right after
\* disconnect() the buffer is empty and the flag is false.
C15_FinalizeClearsManualState ==
  /\ (manualMode /\ lastOp.op \in FinalizeOps /\ InTrace("stopRecording")) =>
       (manualBuffer = <<>> /\ ~pendingManualCommit /\ ~isListening)
  /\ lastOp.op = "Disconnect" => (manualBuffer = <<>> /\ ~pendingManualCommit)

\* C15 witness: a manual-mode timeout finalized a turn.
C15_Witness ==
  lastOp.op = "CommitTimerFire" /\ manualMode /\ InTrace("appendUser")

\* a capture attempt is being opened or is open
CaptureActive == \E i \in CapIds : caps[i].ph \in {"mic", "token", "connecting", "open"}
\* the run has used every capture attempt its budget allows
LiveCapsSpent == \A i \in 1 .. LiveCaps : caps[i].ph # "free"

\* C16: the handler of a playback completion starts no capture: it arms the 700ms
\* listen-restart timer; and when a playback completes in a connected session that has seen
\* no failure, capture is eventually started, unless the session leaves the connected
\* status or a failure is reported first (or the run's capture attempts are spent).
C16_CooldownThenListen ==
  /\ [][lastOp'.op = "PlaybackEnded" =>
          (~Has(trace', "startCapture") /\ Has(trace', "armListenTimer") /\ lrArmed'
             /\ caps' = caps)]_vars
  /\ (lastOp.op = "PlaybackEnded" /\ status = "connected" /\ faults = 0)
       ~> (CaptureActive \/ status # "connected" \/ faults > 0 \/ LiveCapsSpent)

\* C17: in the automatic (VAD) strategy, when a committed transcript with non-empty trimmed
\* text arrives while the AI is not speaking and no turn is in flight, the handler leaves
\* capture stopped (not listening, no microphone stream live, no capture graph connected),
\* appends exactly one user entry with the trimmed text, and issues one dialogue request
\* carrying the new transcript, in that order.
C17_VadFinalImmediately ==
  [][(~manualMode /\ ~isAiSpeaking /\ ~isProcessing
        /\ lastOp'.op = "CommittedTranscript" /\ lastOp'.arg # <<>>) =>
       /\ ~isListening' /\ streamRef' = 0 /\ graphRef' = 0
       /\ \A i \in CapIds : caps'[i].stream # "live" /\ ~caps'[i].graph
       /\ transcript' = Append(transcript, [role |-> "user", text |-> lastOp'.arg])
       /\ \E p \in PipeIds :
            /\ pipes[p].ph = "free"
            /\ pipes'[p].ph = "dialogue" /\ pipes'[p].nextWithUser = transcript'
            /\ \A q \in PipeIds \ {p} : pipes'[q] = pipes[q]
       /\ trace' = <<"stopRecording", "stopRecording", "appendUser", "dialogueReq">>]_vars

\* C18: whenever the status is error or disconnected, no microphone stream is live, no
\* socket is connecting or open, and no capture graph is connected.
C18_ReleasedOnExit ==
  status \in {"error", "disconnected"} =>
    \A i \in CapIds : /\ caps[i].stream # "live"
                      /\ caps[i].ph \notin {"connecting", "open"}
                      /\ ~caps[i].graph

\* C19: when disconnect is called twice in a row (the page's handleDisconnect, with no
\* other event between the two calls), the second call leaves every cell of the session
\* state and of the page as the first call left it and saves no further journal entry.
C19_IdempotentTeardown ==
  [][(lastOp.op = "Disconnect" /\ lastOp'.op = "Disconnect") =>
       /\ UNCHANGED << status, errorMessage, isUserSpeaking, isAiSpeaking, caps, streamRef,
                       wsRef, graphRef, playbackCtx, utts, currentAudioRef,
                       currentPlaybackSourceRef, pipes, transcript, isProcessing,
                       isListening, lrArmed, lrOrphans, mcArmed, mcOrphans, manualBuffer,
                       pendingManualCommit, manualMode, pageTranscript, lrModes, newestEntry >>
       /\ entries' = entries /\ ~Has(trace', "saveEntry")]_vars

\* C19 witness: disconnect was called on a session that was already disconnected, held no
\* stream, socket, graph or audio, and whose conversation an earlier call had saved as an
\* entry; this call saved nothing.
C19_Witness ==
  /\ lastOp.op = "Disconnect" /\ lastOp.preStatus = "disconnected"
  /\ entries = 1 /\ ~InTrace("saveEntry")
  /\ \A i \in CapIds : caps[i].stream # "live" /\ ~caps[i].graph /\ caps[i].ph # "open"
  /\ \A u \in UttIds : utts[u].ph \in {"free", "dead"}

\* C20: the handler that settles a dialogue call, resolved or rejected, leaves isProcessing
\* false, and whenever isProcessing is true it eventually becomes false.
C20_FlagReleased ==
  /\ [][lastOp'.op \in {"DialogueOk", "DialogueFail"} => ~isProcessing']_vars
  /\ isProcessing ~> ~isProcessing

\* C20 witness: a dialogue call that was rejected while the flag was set released it.
C20_Witness ==
  lastOp.op = "DialogueFail" /\ lastOp.preProcessing /\ ~isProcessing

\* C21: the status changes only along the claimed edges: connect() run from disconnected
\* (through connecting, to connected), connected to error, connected to disconnected, and
\* disconnect() to disconnected; so error is left only by disconnect(), and the status
\* never becomes error from disconnected.
C21_StatusEdges ==
  [][status' # status =>
       \/ lastOp'.op = "Disconnect" /\ status' = "disconnected"
       \/ status = "disconnected" /\ lastOp'.op = "Connect" /\ status' = "connected"
       \/ status = "connected" /\ status' \in {"error", "disconnected"}]_vars

\* the steps of turn cycling among the effects of a handler
TurnCyclingEffects == {"appendUser", "dialogueReq", "synthReq", "startCapture"}

\* C22: a handler finalizes a user turn, issues a dialogue or synthesis request, or starts
\* capture only while the status is connected (connect() itself sets connected before it
\* requests the greeting).
C22_OnlyConnectedCycles ==
  [][(\E e \in TurnCyclingEffects : Has(trace', e)) =>
       (status = "connected" \/ (lastOp'.op = "Connect" /\ status' = "connected"))]_vars

\* a is an initial segment of b
IsPrefix(a, b) == Len(a) <= Len(b) /\ \A k \in 1 .. Len(a) : a[k] = b[k]

\* C23: while the status is connected, every handler other than connect() leaves the old
\* session transcript as a prefix of the new one: entries are only appended.
C23_AppendOnly ==
  [][(status = "connected" /\ lastOp'.op # "Connect") => IsPrefix(transcript, transcript')]_vars

\* C24: while the session is connected, every transcription socket that has been opened
\* (connecting or open) was opened with the commit strategy selected at connect time,
\* which is also the strategy manualModeRef gives when its events are interpreted.
C24_StrategyFixed ==
  status = "connected" =>
    \A i \in CapIds : caps[i].ph \in {"connecting", "open"} => caps[i].strategy = manualMode

\* the preview as the claim states it: the joined texts, cut to maxLen characters and
\* followed by an ellipsis when longer
ClaimedPreview(messages, maxLen) ==
  LET text == Join([k \in 1 .. Len(messages) |-> messages[k].text])
  IN IF Len(text) <= maxLen THEN text ELSE SubSeq(text, 1, maxLen) \o <<"...">>

\* C25: when the Disconnect button ends a connected session whose transcript is non-empty,
\* exactly one journal entry is created, with the session transcript as fullTranscript and
\* the claimed preview; when the session transcript is empty no entry is created.
C25_OneEntryPerSession ==
  [][(status = "connected" /\ lastOp'.op = "Disconnect") =>
       IF transcript # <<>>
       THEN /\ entries' = entries + 1
            /\ newestEntry'.fullTranscript = transcript
            /\ newestEntry'.preview = ClaimedPreview(transcript, PreviewLen)
       ELSE entries' = entries /\ newestEntry' = newestEntry]_vars

\* the last handler ended the session (the status left connected, by disconnect or by an
\* error) after at least one user turn
SessionOver ==
  /\ lastOp.preStatus = "connected" /\ status \in {"error", "disconnected"}
  /\ \E k \in 1 .. Len(transcript) : transcript[k].role = "user"

\* C26: once a session in which a user turn was finalized has ended, by disconnect or by
\* an error status, a journal entry holding the session transcript eventually exists (what
\* a response arriving after the end appends to the transcript need not be in the entry).
C26_SessionPersisted ==
  SessionOver ~> /\ entries > 0
                 /\ newestEntry.fullTranscript # <<>>
                 /\ IsPrefix(newestEntry.fullTranscript, transcript)

C28_BadRequest ==
  (/\ apiResp # NoResponse
   /\ apiReq.ep \in PostEndpoints /\ apiReq.key /\ apiReq.body # "valid") =>
    (apiResp.status = 400 /\ apiResp.error # "none" /\ ~apiResp.fetched)

\* C29 (as claimed): for every endpoint other than /api/voices, an upstream answer outside
\* 2xx gives status 500, whatever the upstream status, and a body {error} holding a
\* non-empty human-readable string: the upstream payload's message when it has one,
\* otherwise the raw text or a generic message.
C29_UpstreamFailure ==
  (apiResp.fetched /\ apiReq.ep # "voices" /\ apiReq.up # NetworkError /\ ~IsOk(apiReq.up)) =>
    /\ apiResp.status = 500
    /\ apiResp.error \in {"upstreamMessage", "rawText", "generic"}
    /\ apiReq.up.payload = "nested" => apiResp.error = "upstreamMessage"

\* the unsigned little-endian integer in bytes off + 1 .. off + n of b
RECURSIVE getLittleEndian(_, _, _)
getLittleEndian(b, off, n) ==
  IF n = 0 THEN 0 ELSE b[off + 1] + 256 * getLittleEndian(b, off + 1, n - 1)

\* C30: for an audio buffer of N frames at sample rate S, with any number of channels,
\* the encoder returns exactly 44 + 2N bytes whose header, little-endian, is 'RIFF',
\* 36 + 2N, 'WAVE', 'fmt ', 16, format 1, 1 channel, rate S, byte rate 2S, block align 2,
\* 16 bits per sample, 'data', data size 2N.
C30_WavHeader ==
  wavOut # <<>> =>
    LET N == wavIn.length
        S == wavIn.sampleRate
        b == wavOut
    IN /\ Len(b) = 44 + 2 * N
       /\ SubSeq(b, 1, 4) = << 82, 73, 70, 70 >>
       /\ getLittleEndian(b, 4, 4) = 36 + 2 * N
       /\ SubSeq(b, 9, 12) = << 87, 65, 86, 69 >>
       /\ SubSeq(b, 13, 16) = << 102, 109, 116, 32 >>
       /\ getLittleEndian(b, 16, 4) = 16
       /\ getLittleEndian(b, 20, 2) = 1
       /\ getLittleEndian(b, 22, 2) = 1
       /\ getLittleEndian(b, 24, 4) = S
       /\ getLittleEndian(b, 28, 4) = 2 * S
       /\ getLittleEndian(b, 32, 2) = 2
       /\ getLittleEndian(b, 34, 2) = 16
       /\ SubSeq(b, 37, 40) = << 100, 97, 116, 97 >>
       /\ getLittleEndian(b, 40, 4) = 2 * N
       /\ \A k \in 1 .. Len(b) : b[k] \in 0 .. 255

\* C30 witness: a buffer of several channels and MaxFrames frames was encoded.
C30_Witness ==
  /\ wavIn.numberOfChannels > 1 /\ wavIn.length = MaxFrames
  /\ Len(wavOut) = 44 + 2 * MaxFrames

\* atob followed by a read of the bytes as signed 16-bit little-endian integers
RECURSIVE atob(_)
atob(digits) ==
  IF digits = <<>> THEN <<>>
  ELSE LET b1 == digits[1] * 4 + digits[2] \div 16
           b2 == (digits[2] % 16) * 16 + digits[3] \div 4
           b3 == (digits[3] % 4) * 64 + digits[4]
       IN (IF digits[3] = 64 THEN << b1 >>
           ELSE IF digits[4] = 64 THEN << b1, b2 >>
           ELSE << b1, b2, b3 >>) \o atob(SubSeq(digits, 5, Len(digits)))
getInt16(bytes, i) ==
  LET u == bytes[2 * i - 1] + 256 * bytes[2 * i]
  IN IF u >= 32768 THEN u - 65536 ELSE u
Clamped(v) == IF v < -4 THEN -4 ELSE IF v > 4 THEN 4 ELSE v

\* C31: encoding samples with the source rate equal to the target rate resamples nothing:
\* the output holds exactly one signed 16-bit little-endian sample per input sample, in
\* order, each the input clamped to [-1, 1] and scaled to 16 bits (-1 gives -32768, 1
\* gives 32767), within one quantization step of the clamped input.
C31_IdentityRate ==
  (pcmOut # NoPcmOutput /\ pcmIn.targetRate = pcmIn.sourceRate) =>
    LET bytes == atob(pcmOut)
        in == pcmIn.float32
    IN /\ Len(bytes) = 2 * Len(in)
       /\ \A i \in 1 .. Len(in) :
            LET v == getInt16(bytes, i)
                c == Clamped(in[i])
            IN /\ c = -4 => v = -32768
               /\ c = 4 => v = 32767
               /\ c < 0 => 4 * v = c * 32768
               /\ c >= 0 => (4 * v <= c * 32767 /\ c * 32767 < 4 * (v + 1))

\* C31 witness: a chunk of MaxSamples samples, one of them outside [-1, 1], was encoded
\* with both rates given and equal.
C31_Witness ==
  /\ pcmOut # NoPcmOutput
  /\ pcmIn.targetRate = pcmIn.sourceRate /\ pcmIn.targetRate # 0
  /\ Len(pcmIn.float32) = MaxSamples
  /\ \E i \in 1 .. MaxSamples : pcmIn.float32[i] > 4

\* C32 (as claimed): the microphone is never capturing while the assistant is speaking:
\* isListening and isAiSpeaking are never both true.
C32_NoCaptureWhileSpeaking ==
  ~(isListening /\ isAiSpeaking)

\* the session is doing one of: synthesizing or playing an utterance, waiting for the
\* listen-restart timer, opening a capture, listening, running a turn pipeline
SessionBusy ==
  \/ \E u \in UttIds : utts[u].ph \in {"fetch", "wa", "html"}
  \/ lrArmed \/ lrOrphans > 0
  \/ \E i \in CapIds : caps[i].ph \in {"mic", "token", "connecting"}
  \/ isListening
  \/ \E p \in PipeIds : pipes[p].ph = "dialogue"

\* C33 (as claimed): while the status is connected and no failure has been reported, the
\* session is synthesizing or playing an utterance, waiting for the listen-restart timer,
\* opening a capture, listening, or running a turn pipeline; so after a reply that is
\* only whitespace the session is still on its way to a capture.
C33_NoStuckSession ==
  (status = "connected" /\ faults = 0 /\ errorMessage = "none") => SessionBusy

\* the handlers that run done() for an utterance
CompletionOps == {"PlaybackEnded", "PlaybackError", "PlayRejected", "VoiceFail"}

\* C34 (as claimed): the completion of an utterance (also the ended event of a playback
\* that speak() or disconnect() stopped) does not set isAiSpeaking to false and does not
\* arm the listen-restart timer while another utterance is still being fetched or played.
C34_OlderCompletionHarmless ==
  [][(/\ lastOp'.op \in CompletionOps
      /\ \E u \in UttIds : utts'[u].ph \in {"fetch", "wa", "html"}) =>
       ((isAiSpeaking => isAiSpeaking') /\ ~Has(trace', "armListenTimer"))]_vars

\* C35 (as claimed): done runs once for every utterance, whichever of playback-ended,
\* playback-error, play() rejection or synthesis failure occurs (no completion callback
\* runs for an utterance whose done has already run), and at most one listen-restart
\* timer is pending at any time.
C35_DoneOnce ==
  /\ [][lastOp'.op \in CompletionOps =>
          \A u \in UttIds : utts[u].ph = "htmlFailed" => utts'[u].ph = "htmlFailed"]_vars
  /\ [](lrOrphans = 0)

\* C36 (as claimed): whenever isListening is true the session holds an open transcription
\* socket (wsRef names a socket that is open); so after a remote close or a socket error
\* isListening is false.
C36_ListeningHasSocket ==
  isListening => (wsRef # 0 /\ caps[wsRef].ph = "open")

\* C37 (as claimed): when the dialogue response of a pipeline started in an earlier
\* session is handled, the transcript does not change, and isProcessing is not cleared
\* while a pipeline of the current session is in flight.
C37_SessionsIsolated ==
  [][\A p \in PipeIds :
       (/\ lastOp'.op \in {"DialogueOk", "DialogueFail"}
        /\ pipes[p].ph = "dialogue" /\ pipes'[p].ph = "dead"
        /\ pipes[p].session < connects) =>
         /\ transcript' = transcript
         /\ (\E q \in PipeIds : pipes'[q].ph = "dialogue" /\ pipes'[q].session = connects)
              => (isProcessing => isProcessing')]_vars

\* C38 (as claimed): the manual buffer is never emptied, except by disconnect(), without
\* a user entry being appended to the transcript in the same step (the finalized turn
\* that carries the buffered text).
C38_NoBufferedSpeechLost ==
  [][(manualBuffer # <<>> /\ manualBuffer' = <<>> /\ lastOp'.op # "Disconnect") =>
       (/\ Has(trace', "appendUser")
        /\ Len(transcript') > 0
        /\ transcript'[Len(transcript')].role = "user")]_vars

\* C39 (as claimed): the pending-commit flag is true only while a commit timeout is armed
\* and the capture in which the commit was requested is listening; so once capture is
\* stopped or the timeout has run the flag is false.
C39_PendingCommitScoped ==
  pendingManualCommit => (mcArmed /\ isListening)

====
